---- MODULE Spec2Model ----
(***************************************************************************)
(* A model of tank/deploy/tank_commands/setup_project_wizard.py:           *)
(* SetupProjectFactoryAction (the factory that connects to the services)   *)
(* and SetupProjectWizard (the wizard facade over ProjectSetupParameters). *)
(*                                                                         *)
(* Strings are sequences of one-character strings, so that Python's        *)
(* substring test and str.replace are computed character by character.     *)
(* Python's None is NoneStr for an optional string and NoData for an       *)
(* optional Shotgun record.                                                *)
(***************************************************************************)
EXTENDS Integers, Sequences, FiniteSets, TLC

\* ------------------------------------------------------------------ bounds

\* How many PipelineConfiguration records the Shotgun site may hold.
MaxConfigs == 2

\* How many local storages the configuration templates require at most.
NumStorages == 2

\* How many times the provisioning routine may commit in one behaviour.
MaxProvision == 1

\* ------------------------------------------------------------ Python values


NoneStr == <<"<None>">>

Platforms == {"darwin", "linux2", "win32"}

\* Python truthiness of an optional string: None and "" are both false.
Truthy(s) == s # NoneStr /\ s # <<>>

\* old in s, scanning the start positions from the left.
RECURSIVE PyFindFrom(_, _, _)
PyFindFrom(s, sub, i) ==
    IF i + Len(sub) - 1 > Len(s) THEN 0
    ELSE IF SubSeq(s, i, i + Len(sub) - 1) = sub THEN i
    ELSE PyFindFrom(s, sub, i + 1)

PyIn(sub, s) == PyFindFrom(s, sub, 1) # 0

\* s.replace("", new): new goes before every character and after the last.
RECURSIVE PyInterleave(_, _, _)
PyInterleave(s, new, i) ==
    IF i > Len(s) THEN new
    ELSE new \o <<s[i]>> \o PyInterleave(s, new, i + 1)

\* s.replace(old, new): every non-overlapping occurrence, leftmost first.
RECURSIVE PyReplaceFrom(_, _, _, _)
PyReplaceFrom(s, old, new, i) ==
    IF i > Len(s) THEN <<>>
    ELSE IF i + Len(old) - 1 <= Len(s) /\ SubSeq(s, i, i + Len(old) - 1) = old
         THEN new \o PyReplaceFrom(s, old, new, i + Len(old))
         ELSE <<s[i]>> \o PyReplaceFrom(s, old, new, i + 1)

PyReplace(s, old, new) ==
    IF old = <<>> THEN PyInterleave(s, new, 1)
    ELSE PyReplaceFrom(s, old, new, 1)

\* name.replace("/", "\\")
ToWin(name) == PyReplace(name, <<"/">>, <<"\\">>)

\* --------------------------------------------------------- the Shotgun site

\* A PipelineConfiguration record as find_one returns it; tank_name is the
\* field "project.Project.tank_name".
NoData == [id |-> 0, mac_path |-> NoneStr, linux_path |-> NoneStr,
           windows_path |-> NoneStr, tank_name |-> NoneStr]

NameAB == <<"a", "/", "b">>
NameA  == <<"a">>

Record1 ==
    \* the old name occurs in every platform's path, in that platform's form
    [id |-> 1, tank_name |-> NameAB,
     mac_path |-> <<"/", "m", "/", "a", "/", "b", "/", "k">>,
     linux_path |-> <<"/", "n", "/", "a", "/", "b">>,
     windows_path |-> <<"z", ":", "\\", "a", "\\", "b", "\\", "k">>]

Record2 ==
    \* no separator in the mac path, no linux path, a windows path that
    \* holds the forward-slash form only
    [id |-> 2, tank_name |-> NameAB,
     mac_path |-> <<"/", "m", "/", "a", "b", "/", "k">>,
     linux_path |-> NoneStr,
     windows_path |-> <<"z", ":", "\\", "a", "/", "b">>]

Record3 ==
    \* an empty mac path, the name twice in the linux path (once inside a
    \* longer segment), the name once in the windows path
    [id |-> 3, tank_name |-> NameA,
     mac_path |-> <<>>,
     linux_path |-> <<"/", "a", "/", "a", "b">>,
     windows_path |-> <<"z", ":", "\\", "a">>]

Record4 ==
    \* a record whose project has no tank_name
    [id |-> 4, tank_name |-> NoneStr,
     mac_path |-> <<"/", "m", "/", "k">>,
     linux_path |-> <<"/", "m", "/", "k">>,
     windows_path |-> <<"z", ":", "\\", "k">>]

Record5 ==
    \* a second configuration of Record1's project
    [id |-> 5, tank_name |-> NameAB,
     mac_path |-> <<"/", "m", "/", "a", "/", "b", "/", "d">>,
     linux_path |-> <<"/", "n", "/", "a", "/", "b", "/", "d">>,
     windows_path |-> <<"z", ":", "\\", "a", "\\", "b", "\\", "d">>]

\* What other projects may register on the site: a record and its code.
SiteEntries ==
    { [code |-> "primary", rec |-> Record1],
      [code |-> "primary", rec |-> Record4],
      [code |-> "dev", rec |-> Record5] }

\* sg.find_one("PipelineConfiguration", [["code", "is", "primary"]], ...,
\* [{"field_name": "created_at", "direction": "desc"}]) over records kept in
\* creation order: the last one flagged primary, or None.
RECURSIVE FindOnePrimaryFrom(_, _)
FindOnePrimaryFrom(configs, i) ==
    IF i = 0 THEN NoData
    ELSE IF configs[i].code = "primary" THEN configs[i].rec
    ELSE FindOnePrimaryFrom(configs, i - 1)

\* find_one as it would answer with the sort direction "asc" at line 339:
\* the first record flagged primary.
RECURSIVE FindOldestPrimaryFrom(_, _)
FindOldestPrimaryFrom(configs, i) ==
    IF i > Len(configs) THEN NoData
    ELSE IF configs[i].code = "primary" THEN configs[i].rec
    ELSE FindOldestPrimaryFrom(configs, i + 1)

FindOnePrimary_Oldest(configs) == FindOldestPrimaryFrom(configs, 1)

FindOnePrimary(configs) == FindOnePrimaryFrom(configs, Len(configs))

\* Every content the site may have when it is queried: other users add,
\* change and retire configurations between any two calls of the wizard.
\* An entity is on the site once.
SiteContents ==
    { c \in UNION { [1..n -> SiteEntries] : n \in 0..MaxConfigs } :
        \A i, j \in 1..Len(c) : c[i].rec.id = c[j].rec.id => i = j }

\* The contents a lookup sees: none when it does not query the site.
SiteSeenBy(ps) == IF ps.sg_info # NoData THEN {<<>>} ELSE SiteContents

\* ------------------------------------------------------- ProjectSetupParameters

ConfigUris == {"uriLocal", "uriLinked2", "uriLinked3", "uriBad"}

\* The template behind a uri: how many storages it requires, and the
\* PipelineConfiguration record it is linked to, if it is a project's
\* configuration.
TemplateStorages(uri) == IF uri = "uriLocal" THEN NumStorages ELSE 1

TemplateShotgunInfo(uri) ==
    CASE uri = "uriLinked2" -> Record2
      [] uri = "uriLinked3" -> Record3
      [] OTHER -> NoData

NewNameCD == <<"c", "/", "d">>
BadName   == <<"?">>
DiskNames == {NewNameCD, BadName}

StorageName(i) == <<"storage", i>>

NoPaths == [p \in Platforms |-> NoneStr]

LocationA == [linux2 |-> <<"/", "c", "f", "g">>,
              win32  |-> <<"z", ":", "\\", "c", "f", "g">>,
              darwin |-> <<"/", "c", "f", "g">>]

NoParams == [config_uri |-> "None", storages |-> 0, sg_info |-> NoData,
             project_id |-> 0, project_disk_name |-> NoneStr,
             config_location |-> NoPaths, core_path |-> NoPaths]

\* pipelineconfig_utils.resolve_all_os_paths_to_core(core)
ResolveAllOsPathsToCore(core) == [p \in Platforms |-> <<core, p>>]

\* What get_core_path_for_config may find for a basis configuration.
Cores == {"coreOther"}

\* self._params.get_required_storages()
GetRequiredStorages(ps) == [i \in 1..ps.storages |-> StorageName(i)]

\* self._params.preview_project_path(s, project_disk_name, platform)
PreviewProjectPath(s, name, plat) == <<s, plat, name>>

VARIABLES
    platform,                  \* sys.platform
    sgConfigs,                 \* the site's PipelineConfiguration records, oldest first,
                               \* as the last sg.find_one saw them
    wizard,                    \* "none", "wizard", or "TankError" (the factory failed)
    sg,                        \* self._sg
    sg_app_store,              \* self._sg_app_store
    sg_app_store_script_user,  \* self._sg_app_store_script_user
    warnings,                  \* log.warning calls of the factory
    params,                    \* self._params
    umask,                     \* the process umask
    umask0,                    \* the umask the process started with
    disk,                      \* the project folders that exist on disk
    pc,                        \* "idle", or the step a running handler is at
    op,                        \* the wizard operation called last
    outcome,                   \* how it ended
    frame,                     \* the local variables of the handler that ran last
    data,                      \* the basis record the last lookup chose
    queried,                   \* whether the last operation called sg.find_one
    suggested_defaults,        \* what get_default_configuration_location returned
    return_data,               \* what preview_project_paths returned
    calls,                     \* the routines execute() has invoked, in order, each
                               \* with how it ended: "returned" or "raised"
    provisionCount             \* the commits of run_project_setup

vars == <<platform, sgConfigs, wizard, sg, sg_app_store, sg_app_store_script_user,
          warnings, params, umask, umask0, disk, pc, op, outcome, frame, data,
          queried, suggested_defaults, return_data, calls, provisionCount>>

factoryVars == <<wizard, sg, sg_app_store, sg_app_store_script_user, warnings>>
resultVars == <<sgConfigs, data, queried, suggested_defaults, return_data>>

NoFrame == [name |-> NoneStr, idx |-> 0, old_umask |-> 0, created |-> 0,
            localize_api |-> TRUE, core_path_dict |-> NoPaths,
            exists |-> FALSE, core |-> "None", localized |-> FALSE]

Init ==
    /\ platform \in Platforms
    /\ sgConfigs = <<>>
    /\ wizard = "none"
    /\ sg = "None"
    /\ sg_app_store = "None"
    /\ sg_app_store_script_user = "None"
    /\ warnings = 0
    /\ params = NoParams
    /\ umask0 \in {18}
    /\ umask = umask0
    /\ disk = {}
    /\ pc = "idle"
    /\ op = "none"
    /\ outcome = "none"
    /\ frame = NoFrame
    /\ data = NoData
    /\ queried = FALSE
    /\ suggested_defaults = NoPaths
    /\ return_data = <<>>
    /\ calls = <<>>
    /\ provisionCount = 0

\* ------------------------------------------------ SetupProjectFactoryAction

ConnectResults == {"ok", "connect_fails", "server_info_fails"}

\* _shotgun_connect as it would be with line 114 left out: the script user
\* survives a failed app store connection.
ShotgunConnect_KeepsScriptUser(primary, appStore) ==
    IF primary # "ok"
    THEN [raised |-> TRUE, sg |-> "None", sg_app_store |-> "None",
          script_user |-> "None", warned |-> FALSE]
    ELSE IF appStore = "connect_fails"
    THEN [raised |-> FALSE, sg |-> "sg", sg_app_store |-> "None",
          script_user |-> "None", warned |-> TRUE]
    ELSE IF appStore = "server_info_fails"
    THEN [raised |-> FALSE, sg |-> "sg", sg_app_store |-> "None",
          script_user |-> "script_user", warned |-> TRUE]
    ELSE [raised |-> FALSE, sg |-> "sg", sg_app_store |-> "sg_app_store",
          script_user |-> "script_user", warned |-> FALSE]

\* _shotgun_connect: what it raises or returns, given how the connection to
\* the site and the connection to the app store go. A connection that fails
\* yields no handle; the app store's script user comes with its handle.
ShotgunConnect(primary, appStore) ==
    IF primary # "ok"
    THEN [raised |-> TRUE, sg |-> "None", sg_app_store |-> "None",
          script_user |-> "None", warned |-> FALSE]
    ELSE IF appStore # "ok"
    THEN [raised |-> FALSE, sg |-> "sg", sg_app_store |-> "None",
          script_user |-> "None", warned |-> TRUE]
    ELSE [raised |-> FALSE, sg |-> "sg", sg_app_store |-> "sg_app_store",
          script_user |-> "script_user", warned |-> FALSE]

\* run_noninteractive: _shotgun_connect, then the wizard's constructor.
RunNoninteractive ==
    /\ wizard # "wizard"
    /\ pc = "idle"
    /\ \E primary \in ConnectResults, appStore \in ConnectResults :
         LET c == ShotgunConnect(primary, appStore) IN
         IF c.raised
         THEN /\ wizard' = "TankError"
              /\ UNCHANGED <<sg, sg_app_store, sg_app_store_script_user, warnings>>
         ELSE /\ wizard' = "wizard"
              /\ sg' = c.sg
              /\ sg_app_store' = c.sg_app_store
              /\ sg_app_store_script_user' = c.script_user
              /\ warnings' = IF c.warned THEN warnings + 1 ELSE warnings
    /\ UNCHANGED <<platform, params, umask, umask0, disk, pc, op,
                   outcome, frame, calls, provisionCount>>
    /\ UNCHANGED resultVars

\* --------------------------------------------------------- SetupProjectWizard

\* A wizard operation that returns or raises at once: what it leaves behind.
Returns(name, how) ==
    /\ op' = name
    /\ outcome' = how
    /\ pc' = "idle"
    /\ frame' = NoFrame
    /\ calls' = <<>>

NoResults ==
    /\ sgConfigs' = <<>>
    /\ data' = NoData
    /\ queried' = FALSE
    /\ suggested_defaults' = NoPaths
    /\ return_data' = <<>>

\* A wizard serves calls until its project is set up; one call runs at a time.
CanCall == wizard = "wizard" /\ pc = "idle" /\ provisionCount < MaxProvision

HasTemplate(ps) == ps.config_uri # "None"

\* set_project: self._params.set_project_id(project_id, force)
SetProject ==
    /\ CanCall
    /\ \E alreadySetUp \in BOOLEAN, force \in BOOLEAN :
         IF alreadySetUp /\ ~force
         THEN /\ Returns("set_project", "validation_error")
              /\ UNCHANGED params
         ELSE /\ Returns("set_project", "ok")
              /\ params' = [params EXCEPT !.project_id = 1]
    /\ NoResults
    /\ UNCHANGED <<platform, umask, umask0, disk, provisionCount>>
    /\ UNCHANGED factoryVars

\* set_config_uri: self._params.set_config_uri(config_uri)
SetConfigUri ==
    /\ CanCall
    /\ \E uri \in ConfigUris :
         IF uri = "uriBad"
         THEN /\ Returns("set_config_uri", "configuration_error")
              /\ UNCHANGED params
         ELSE /\ Returns("set_config_uri", "ok")
              /\ params' = [params EXCEPT !.config_uri = uri,
                                          !.storages = TemplateStorages(uri),
                                          !.sg_info = TemplateShotgunInfo(uri)]
    /\ NoResults
    /\ UNCHANGED <<platform, umask, umask0, disk, provisionCount>>
    /\ UNCHANGED factoryVars

\* get_config_metadata: get_configuration_display_name() and
\* get_configuration_description() of the committed template
GetConfigMetadata ==
    /\ CanCall
    /\ Returns("get_config_metadata",
               IF HasTemplate(params) THEN "ok" ELSE "precondition_error")
    /\ NoResults
    /\ UNCHANGED <<platform, params, umask, umask0, disk, provisionCount>>
    /\ UNCHANGED factoryVars

\* get_default_project_disk_name: needs a template and a project
GetDefaultProjectDiskName ==
    /\ CanCall
    /\ Returns("get_default_project_disk_name",
               IF HasTemplate(params) /\ params.project_id # 0
               THEN "ok" ELSE "precondition_error")
    /\ NoResults
    /\ UNCHANGED <<platform, params, umask, umask0, disk, provisionCount>>
    /\ UNCHANGED factoryVars

\* self._params.validate_project_disk_name(name): how it ends
ValidateName(ps, name) ==
    IF ~HasTemplate(ps) THEN "precondition_error"
    ELSE IF name = BadName THEN "validation_error"
    ELSE "ok"

\* The loop of preview_project_paths as it would be with line 265 asking for
\* the darwin path again.
RECURSIVE PreviewLoop_LinuxFromDarwin(_, _, _, _)
PreviewLoop_LinuxFromDarwin(storages, name, i, acc) ==
    IF i > Len(storages) THEN acc
    ELSE LET s == storages[i]
             entry == [darwin |-> PreviewProjectPath(s, name, "darwin"),
                       win32  |-> PreviewProjectPath(s, name, "win32"),
                       linux2 |-> PreviewProjectPath(s, name, "darwin")]
         IN  PreviewLoop_LinuxFromDarwin(storages, name, i + 1,
                         [k \in (DOMAIN acc) \cup {s} |->
                            IF k = s THEN entry ELSE acc[k]])

\* The loop of preview_project_paths: return_data[s] gets the three keys.
RECURSIVE PreviewLoop(_, _, _, _)
PreviewLoop(storages, name, i, acc) ==
    IF i > Len(storages) THEN acc
    ELSE LET s == storages[i]
             entry == [darwin |-> PreviewProjectPath(s, name, "darwin"),
                       win32  |-> PreviewProjectPath(s, name, "win32"),
                       linux2 |-> PreviewProjectPath(s, name, "linux2")]
         IN  PreviewLoop(storages, name, i + 1,
                         [k \in (DOMAIN acc) \cup {s} |->
                            IF k = s THEN entry ELSE acc[k]])

\* preview_project_paths
PreviewProjectPaths ==
    /\ CanCall
    /\ \E name \in DiskNames :
         IF ~HasTemplate(params)
         THEN /\ Returns("preview_project_paths", "precondition_error")
              /\ return_data' = <<>>
         ELSE /\ Returns("preview_project_paths", "ok")
              /\ return_data' = PreviewLoop(GetRequiredStorages(params), name, 1, <<>>)
    /\ sgConfigs' = <<>>
    /\ data' = NoData
    /\ queried' = FALSE
    /\ suggested_defaults' = NoPaths
    /\ UNCHANGED <<platform, params, umask, umask0, disk, provisionCount>>
    /\ UNCHANGED factoryVars

\* set_project_disk_name, lines 279-285 and, without create_folders, 304:
\* the name is validated, then the loop over the storages starts.
SetProjectDiskName ==
    /\ CanCall
    /\ \E name \in DiskNames, create_folders \in BOOLEAN :
         LET valid == ValidateName(params, name) IN
         IF valid # "ok"
         THEN /\ Returns("set_project_disk_name", valid)
              /\ UNCHANGED params
         ELSE IF create_folders
         THEN /\ op' = "set_project_disk_name"
              /\ outcome' = "running"
              /\ pc' = "spdn_loop"
              /\ frame' = [NoFrame EXCEPT !.name = name, !.idx = 1]
              /\ calls' = <<>>
              /\ UNCHANGED params
         ELSE /\ Returns("set_project_disk_name", "ok")
              /\ params' = [params EXCEPT !.project_disk_name = name]
    /\ NoResults
    /\ UNCHANGED <<platform, umask, umask0, disk, provisionCount>>
    /\ UNCHANGED factoryVars

\* Lines 286-293 and 300-304: the next storage's folder is looked up, and the
\* umask is cleared when it has to be created; after the last storage the
\* name is registered.
SpdnLoop ==
    /\ pc = "spdn_loop"
    /\ LET storages == GetRequiredStorages(params)
           proj_path == PreviewProjectPath(storages[frame.idx], frame.name, platform)
       IN
       IF frame.idx > Len(storages)
       THEN /\ params' = [params EXCEPT !.project_disk_name = frame.name]
            /\ pc' = "idle"
            /\ outcome' = "ok"
            /\ UNCHANGED <<umask, frame>>
       ELSE IF proj_path \notin disk
       THEN /\ frame' = [frame EXCEPT !.old_umask = umask]
            /\ umask' = 0
            /\ pc' = "spdn_makedirs"
            /\ UNCHANGED <<params, outcome>>
       ELSE /\ frame' = [frame EXCEPT !.idx = @ + 1]
            /\ UNCHANGED <<params, pc, outcome, umask>>
    /\ UNCHANGED <<platform, umask0, disk, op, calls, provisionCount>>
    /\ UNCHANGED factoryVars
    /\ UNCHANGED resultVars

\* Lines 295-297 as they would be without try and finally: the umask is
\* restored only when os.makedirs returns.
UmaskAfterMakedirs_NoFinally(old_umask, current, created) ==
    IF created THEN old_umask ELSE current

\* Lines 296-297: what the umask is once os.makedirs has returned or raised.
UmaskAfterMakedirs(old_umask, current, created) == old_umask

\* Lines 294-304 as they would be with the name registered in a finally
\* clause around the loop: a failed os.makedirs still commits the name.
SpdnMakedirs_CommitsOnFailure ==
    /\ pc = "spdn_makedirs"
    /\ LET storages == GetRequiredStorages(params)
           proj_path == PreviewProjectPath(storages[frame.idx], frame.name, platform)
       IN
       \E created \in BOOLEAN :
         /\ umask' = UmaskAfterMakedirs(frame.old_umask, umask, created)
         /\ IF created
            THEN /\ disk' = disk \cup {proj_path}
                 /\ frame' = [frame EXCEPT !.idx = @ + 1, !.created = @ + 1]
                 /\ pc' = "spdn_loop"
                 /\ UNCHANGED <<outcome, params>>
            ELSE /\ pc' = "idle"
                 /\ outcome' = "os_error"
                 /\ params' = [params EXCEPT !.project_disk_name = frame.name]
                 /\ UNCHANGED <<disk, frame>>
    /\ UNCHANGED <<platform, umask0, op, calls, provisionCount>>
    /\ UNCHANGED factoryVars
    /\ UNCHANGED resultVars

\* Lines 289-295 as they would be with the folder made for every platform's
\* path of the storage.
SpdnMakedirs_EveryPlatform ==
    /\ pc = "spdn_makedirs"
    /\ LET storages == GetRequiredStorages(params)
       IN
       \E created \in BOOLEAN :
         /\ umask' = UmaskAfterMakedirs(frame.old_umask, umask, created)
         /\ IF created
            THEN /\ disk' = disk \cup
                        { PreviewProjectPath(storages[frame.idx], frame.name, p) :
                            p \in Platforms }
                 /\ frame' = [frame EXCEPT !.idx = @ + 1, !.created = @ + 1]
                 /\ pc' = "spdn_loop"
                 /\ UNCHANGED outcome
            ELSE /\ pc' = "idle"
                 /\ outcome' = "os_error"
                 /\ UNCHANGED <<disk, frame>>
    /\ UNCHANGED <<platform, params, umask0, op, calls, provisionCount>>
    /\ UNCHANGED factoryVars
    /\ UNCHANGED resultVars

\* Lines 294-298: os.makedirs(proj_path, 0777) creates the folder or raises;
\* the finally clause restores the umask either way.
SpdnMakedirs ==
    /\ pc = "spdn_makedirs"
    /\ LET storages == GetRequiredStorages(params)
           proj_path == PreviewProjectPath(storages[frame.idx], frame.name, platform)
       IN
       \E created \in BOOLEAN :
         /\ umask' = UmaskAfterMakedirs(frame.old_umask, umask, created)
         /\ IF created
            THEN /\ disk' = disk \cup {proj_path}
                 /\ frame' = [frame EXCEPT !.idx = @ + 1, !.created = @ + 1]
                 /\ pc' = "spdn_loop"
                 /\ UNCHANGED outcome
            ELSE /\ pc' = "idle"
                 /\ outcome' = "os_error"
                 /\ UNCHANGED <<disk, frame>>
    /\ UNCHANGED <<platform, params, umask0, op, calls, provisionCount>>
    /\ UNCHANGED factoryVars
    /\ UNCHANGED resultVars

\* set_configuration_location
SetConfigurationLocation ==
    /\ CanCall
    /\ \E suitable \in BOOLEAN :
         IF suitable
         THEN /\ Returns("set_configuration_location", "ok")
              /\ params' = [params EXCEPT !.config_location = LocationA]
         ELSE /\ Returns("set_configuration_location", "validation_error")
              /\ UNCHANGED params
    /\ NoResults
    /\ UNCHANGED <<platform, umask, umask0, disk, provisionCount>>
    /\ UNCHANGED factoryVars

\* Lines 327-339: the record of the template if it has one, else the most
\* recent primary configuration of the site. queried: find_one was called.
LocationBasis(ps, configs) ==
    IF ps.sg_info # NoData
    THEN [data |-> ps.sg_info, queried |-> FALSE]
    ELSE [data |-> FindOnePrimary(configs), queried |-> TRUE]

\* Lines 357-379 as they would be with line 378 testing the windows path for
\* the name in its forward-slash form.
SuggestedDefaults_WinUsesSlashName(d, new_proj_disk_name, new_proj_disk_name_win) ==
    LET old_project_disk_name == d.tank_name
        old_project_disk_name_win == ToWin(old_project_disk_name)
    IN  [darwin |->
            IF Truthy(d.mac_path) /\ PyIn(old_project_disk_name, d.mac_path)
            THEN PyReplace(d.mac_path, old_project_disk_name, new_proj_disk_name)
            ELSE NoneStr,
         linux2 |->
            IF Truthy(d.linux_path) /\ PyIn(old_project_disk_name, d.linux_path)
            THEN PyReplace(d.linux_path, old_project_disk_name, new_proj_disk_name)
            ELSE NoneStr,
         win32 |->
            IF Truthy(d.windows_path) /\ PyIn(old_project_disk_name, d.windows_path)
            THEN PyReplace(d.windows_path, old_project_disk_name_win,
                           new_proj_disk_name_win)
            ELSE NoneStr]

\* Lines 357-379: the three suggestions from the basis record d.
SuggestedDefaults(d, new_proj_disk_name, new_proj_disk_name_win) ==
    LET old_project_disk_name == d.tank_name
        old_project_disk_name_win == ToWin(old_project_disk_name)
    IN  [darwin |->
            IF Truthy(d.mac_path) /\ PyIn(old_project_disk_name, d.mac_path)
            THEN PyReplace(d.mac_path, old_project_disk_name, new_proj_disk_name)
            ELSE NoneStr,
         linux2 |->
            IF Truthy(d.linux_path) /\ PyIn(old_project_disk_name, d.linux_path)
            THEN PyReplace(d.linux_path, old_project_disk_name, new_proj_disk_name)
            ELSE NoneStr,
         win32 |->
            IF Truthy(d.windows_path) /\ PyIn(old_project_disk_name_win, d.windows_path)
            THEN PyReplace(d.windows_path, old_project_disk_name_win,
                           new_proj_disk_name_win)
            ELSE NoneStr]

\* get_default_configuration_location
GetDefaultConfigurationLocation ==
    /\ CanCall
    /\ IF params.project_disk_name = NoneStr \/ ~HasTemplate(params)
       THEN \* get_project_disk_name() or get_configuration_shotgun_info() raises
            /\ Returns("get_default_configuration_location", "precondition_error")
            /\ NoResults
       ELSE \E site \in SiteSeenBy(params) :
            LET basis == LocationBasis(params, site)
                new_proj_disk_name == params.project_disk_name
                new_proj_disk_name_win == ToWin(new_proj_disk_name)
            IN  /\ sgConfigs' = site
                /\ data' = basis.data
                /\ queried' = basis.queried
                /\ return_data' = <<>>
                /\ IF basis.data = NoData
                   THEN /\ Returns("get_default_configuration_location", "ok")
                        /\ suggested_defaults' = NoPaths
                   ELSE IF basis.data.tank_name = NoneStr
                   THEN \* line 354: None has no replace()
                        /\ Returns("get_default_configuration_location", "crash")
                        /\ suggested_defaults' = NoPaths
                   ELSE /\ Returns("get_default_configuration_location", "ok")
                        /\ suggested_defaults' =
                             SuggestedDefaults(basis.data, new_proj_disk_name,
                                               new_proj_disk_name_win)
    /\ UNCHANGED <<platform, params, umask, umask0, disk, provisionCount>>
    /\ UNCHANGED factoryVars

\* self._params.set_associated_core_path(linux_path, windows_path, mac_path)
SetAssociatedCorePath(ps, linux_path, windows_path, mac_path) ==
    [ps EXCEPT !.core_path = [linux2 |-> linux_path, win32 |-> windows_path,
                              darwin |-> mac_path]]

\* Line 455: lookup[sys.platform] applied to the record.
RootPathFor(d, plat) ==
    CASE plat = "darwin" -> d.mac_path
      [] plat = "linux2" -> d.linux_path
      [] plat = "win32"  -> d.windows_path

\* Lines 429-451 as they would be with the site asked first and the
\* template's record used only when the site has no primary configuration.
CoreBasis_SiteFirst(ps, configs) ==
    IF FindOnePrimary(configs) # NoData
    THEN [data |-> FindOnePrimary(configs), queried |-> TRUE]
    ELSE [data |-> ps.sg_info, queried |-> TRUE]

\* Lines 429-451: the record of the template if it has one, else the most
\* recent primary configuration of the site.
CoreBasis(ps, configs) ==
    IF ps.sg_info # NoData
    THEN [data |-> ps.sg_info, queried |-> FALSE]
    ELSE [data |-> FindOnePrimary(configs), queried |-> TRUE]

\* Lines 424-475 as they would be with localize_api starting out False.
ResolveCore_DefaultShared(d, plat, exists, core, localized) ==
    LET pipeline_config_root_path == RootPathFor(d, plat) IN
    IF /\ d # NoData
       /\ Truthy(pipeline_config_root_path) /\ exists
       /\ core # "None"
    THEN [localize_api |-> localized,
          core_path_dict |-> ResolveAllOsPathsToCore(core)]
    ELSE [localize_api |-> FALSE,
          core_path_dict |-> ResolveAllOsPathsToCore("coreRunning")]

\* Lines 453-475 as they would be without the test of core_api_root at
\* line 462.
ResolveCore_NoCoreCheck(d, plat, exists, core, localized) ==
    LET pipeline_config_root_path == RootPathFor(d, plat) IN
    IF /\ d # NoData
       /\ Truthy(pipeline_config_root_path) /\ exists
    THEN [localize_api |-> localized,
          core_path_dict |-> ResolveAllOsPathsToCore(core)]
    ELSE [localize_api |-> TRUE,
          core_path_dict |-> ResolveAllOsPathsToCore("coreRunning")]

\* Lines 453-475 as they would be without the else branch at lines 474-475.
ResolveCore_KeepsLocalize(d, plat, exists, core, localized) ==
    LET pipeline_config_root_path == RootPathFor(d, plat) IN
    IF /\ d # NoData
       /\ Truthy(pipeline_config_root_path) /\ exists
       /\ core # "None"
    THEN [localize_api |-> TRUE,
          core_path_dict |-> ResolveAllOsPathsToCore(core)]
    ELSE [localize_api |-> TRUE,
          core_path_dict |-> ResolveAllOsPathsToCore("coreRunning")]

\* Lines 424-427 and 453-475: the core to associate and whether to localize,
\* given what the disk says about the basis d: whether its root path exists,
\* which core get_core_path_for_config finds there ("None": none), and
\* whether is_localized holds of it.
ResolveCore(d, plat, exists, core, localized) ==
    LET pipeline_config_root_path == RootPathFor(d, plat) IN
    IF /\ d # NoData
       /\ Truthy(pipeline_config_root_path) /\ exists
       /\ core # "None"
    THEN [localize_api |-> localized,
          core_path_dict |-> ResolveAllOsPathsToCore(core)]
    ELSE [localize_api |-> TRUE,
          core_path_dict |-> ResolveAllOsPathsToCore("coreRunning")]

\* execute, lines 409-475: the basis is chosen and the core resolved.
ExecuteStart ==
    /\ CanCall
    /\ IF ~HasTemplate(params)
       THEN \* get_configuration_shotgun_info() raises
            /\ Returns("execute", "precondition_error")
            /\ NoResults
       ELSE \E site \in SiteSeenBy(params) :
            LET basis == CoreBasis(params, site)
                root == RootPathFor(basis.data, platform)
            IN  \E exists \in BOOLEAN, core \in Cores \cup {"None"},
                   localized \in BOOLEAN :
                  /\ sgConfigs' = site
                  \* what the code never asks the disk is left at its default
                  /\ exists => basis.data # NoData /\ Truthy(root)
                  /\ core # "None" => exists
                  /\ localized => core # "None"
                  /\ LET r == ResolveCore(basis.data, platform, exists, core, localized)
                     IN  frame' = [NoFrame EXCEPT
                                     !.localize_api = r.localize_api,
                                     !.core_path_dict = r.core_path_dict,
                                     !.exists = exists, !.core = core,
                                     !.localized = localized]
                  /\ data' = basis.data
                  /\ queried' = basis.queried
                  /\ suggested_defaults' = NoPaths
                  /\ return_data' = <<>>
                  /\ op' = "execute"
                  /\ outcome' = "running"
                  /\ pc' = "exec_commit"
                  /\ calls' = <<>>
    /\ UNCHANGED <<platform, params, umask, umask0, disk, provisionCount>>
    /\ UNCHANGED factoryVars

\* Lines 477-480: the resolved core is committed.
ExecCommit ==
    /\ pc = "exec_commit"
    /\ params' = SetAssociatedCorePath(params, frame.core_path_dict["linux2"],
                                       frame.core_path_dict["win32"],
                                       frame.core_path_dict["darwin"])
    /\ calls' = Append(calls, <<"set_associated_core_path", "returned">>)
    /\ pc' = "exec_validate"
    /\ UNCHANGED <<platform, umask, umask0, disk, op, outcome, frame,
                   provisionCount>>
    /\ UNCHANGED factoryVars
    /\ UNCHANGED resultVars

\* execute() as it would be with run_project_setup in a try block that
\* swallows its error.
AfterCall_SwallowsProvisionError(routine, returned, localize_api) ==
    CASE routine = "pre_setup_validation" ->
            IF returned THEN "exec_provision" ELSE "idle"
      [] routine = "run_project_setup" ->
            IF localize_api THEN "exec_localize" ELSE "idle"
      [] routine = "do_localize" -> "idle"

\* Lines 483-492: where execute() goes once a routine has returned or raised.
AfterCall(routine, returned, localize_api) ==
    CASE ~returned -> "idle"
      [] returned /\ routine = "pre_setup_validation" -> "exec_provision"
      [] returned /\ routine = "run_project_setup" ->
            IF localize_api THEN "exec_localize" ELSE "idle"
      [] returned /\ routine = "do_localize" -> "idle"

\* self._params.pre_setup_validation(): every required field is set
RequiredFieldsSet(ps) ==
    /\ HasTemplate(ps)
    /\ ps.project_id # 0
    /\ ps.project_disk_name # NoneStr
    /\ ps.config_location # NoPaths

\* Lines 482-483: pre-flight validation passes or raises.
ExecValidate ==
    /\ pc = "exec_validate"
    /\ \E consistent \in BOOLEAN :
         LET returned == RequiredFieldsSet(params) /\ consistent IN
         /\ pc' = AfterCall("pre_setup_validation", returned, frame.localize_api)
         /\ IF returned
            THEN /\ calls' = Append(calls, <<"pre_setup_validation", "returned">>)
                 /\ UNCHANGED outcome
            ELSE /\ calls' = Append(calls, <<"pre_setup_validation", "raised">>)
                 /\ outcome' = "validation_error"
    /\ UNCHANGED <<platform, params, umask, umask0, disk, op, frame,
                   provisionCount>>
    /\ UNCHANGED factoryVars
    /\ UNCHANGED resultVars

\* Lines 485-489: run_project_setup commits the project or raises; then
\* localize_api decides whether anything follows.
ExecProvision ==
    /\ pc = "exec_provision"
    /\ \E done \in BOOLEAN :
         /\ pc' = AfterCall("run_project_setup", done, frame.localize_api)
         /\ IF done
            THEN /\ calls' = Append(calls, <<"run_project_setup", "returned">>)
                 /\ provisionCount' = provisionCount + 1
                 /\ outcome' = IF pc' = "idle" THEN "ok" ELSE outcome
            ELSE /\ calls' = Append(calls, <<"run_project_setup", "raised">>)
                 /\ UNCHANGED provisionCount
                 /\ outcome' = IF pc' = "idle" THEN "provision_error" ELSE outcome
    /\ UNCHANGED <<platform, params, umask, umask0, disk, op, frame>>
    /\ UNCHANGED factoryVars
    /\ UNCHANGED resultVars

\* Lines 490-492: core.do_localize copies the core or raises.
ExecLocalize ==
    /\ pc = "exec_localize"
    /\ \E done \in BOOLEAN :
         /\ pc' = AfterCall("do_localize", done, frame.localize_api)
         /\ IF done
            THEN /\ calls' = Append(calls, <<"do_localize", "returned">>)
                 /\ outcome' = "ok"
            ELSE /\ calls' = Append(calls, <<"do_localize", "raised">>)
                 /\ outcome' = "localize_error"
    /\ UNCHANGED <<platform, params, umask, umask0, disk, op, frame,
                   provisionCount>>
    /\ UNCHANGED factoryVars
    /\ UNCHANGED resultVars

Next ==
    \/ RunNoninteractive
    \/ SetProject
    \/ SetConfigUri
    \/ GetConfigMetadata
    \/ GetDefaultProjectDiskName
    \/ PreviewProjectPaths
    \/ SetProjectDiskName
    \/ SpdnLoop
    \/ SpdnMakedirs
    \/ SetConfigurationLocation
    \/ GetDefaultConfigurationLocation
    \/ ExecuteStart
    \/ ExecCommit
    \/ ExecValidate
    \/ ExecProvision
    \/ ExecLocalize

Spec == Init /\ [][Next]_vars

\* ------------------------------------------------------------------ claims

ExecRoutines == <<"set_associated_core_path", "pre_setup_validation",
                  "run_project_setup", "do_localize">>

ExecOutcomes == {"running", "ok", "validation_error", "provision_error",
                 "localize_error"}

RunningCorePaths == [p \in Platforms |-> <<"coreRunning", p>>]

\* execute() got past its lookup of the template's record.
Executing == op = "execute" /\ outcome \in ExecOutcomes

\* run_project_setup was invoked and returned.
Provisioned == Len(calls) >= 3 /\ calls[3] = <<"run_project_setup", "returned">>

\* do_localize is about to be invoked or was invoked.
LocalizeInvoked == pc = "exec_localize" \/ Len(calls) = 4

\* C1: execute() invokes set_associated_core_path, pre_setup_validation,
\* run_project_setup and do_localize in that order and each at most once;
\* only the last routine invoked can have raised, and execute() has then
\* ended with that error; do_localize is invoked only when localize_api is
\* true; and the commits of run_project_setup are never taken back, so that
\* one remains when do_localize has raised.
C1_OrderInv ==
    /\ Len(calls) <= 4
    /\ \A i \in 1..Len(calls) : calls[i][1] = ExecRoutines[i]
    /\ \A i \in 1..(Len(calls) - 1) : calls[i][2] = "returned"
    /\ pc = "exec_commit" => calls = <<>>
    /\ pc = "exec_validate" => Len(calls) = 1
    /\ pc = "exec_provision" => Len(calls) = 2
    /\ pc = "exec_localize" => Len(calls) = 3
    /\ Len(calls) = 4 => frame.localize_api
    /\ (calls # <<>> /\ calls[Len(calls)][2] = "raised") =>
          /\ pc = "idle"
          /\ outcome = CASE Len(calls) = 2 -> "validation_error"
                          [] Len(calls) = 3 -> "provision_error"
                          [] Len(calls) = 4 -> "localize_error"
                          [] OTHER -> "none"
    /\ (op = "execute" /\ outcome = "validation_error") => Len(calls) = 2
    /\ (op = "execute" /\ outcome = "provision_error") => Len(calls) = 3
    /\ (op = "execute" /\ outcome = "localize_error") =>
          Len(calls) = 4 /\ Provisioned /\ provisionCount >= 1

C1_NoRollback == provisionCount' >= provisionCount

C1_ExecuteOrder == []C1_OrderInv /\ [][C1_NoRollback]_vars

\* do_localize raised after run_project_setup had committed.
C1_Witness ==
    /\ op = "execute" /\ outcome = "localize_error"
    /\ calls = << <<"set_associated_core_path", "returned">>,
                  <<"pre_setup_validation", "returned">>,
                  <<"run_project_setup", "returned">>,
                  <<"do_localize", "raised">> >>
    /\ provisionCount = 1

\* No record of the site is flagged primary.
NoPrimaryIn(site) == \A i \in 1..Len(site) : site[i].code # "primary"

\* C2: when the template has no record and the site has no primary record,
\* execute() resolves the running core with localize_api true, commits the
\* running core's path of each platform, and invokes do_localize once
\* run_project_setup has returned.
C2_NoBasisDefaults ==
    (Executing /\ params.sg_info = NoData /\ NoPrimaryIn(sgConfigs)) =>
        /\ data = NoData
        /\ frame.localize_api
        /\ frame.core_path_dict = RunningCorePaths
        /\ Len(calls) >= 1 => params.core_path = RunningCorePaths
        /\ Provisioned => LocalizeInvoked

\* The site holds a dev record only and execute() ran to its end.
C2_Witness ==
    /\ Executing /\ outcome = "ok"
    /\ params.sg_info = NoData
    /\ Len(sgConfigs) >= 1 /\ NoPrimaryIn(sgConfigs)
    /\ Len(calls) = 4 /\ calls[4] = <<"do_localize", "returned">>
    /\ params.core_path = RunningCorePaths

\* The basis record's core was not resolved: its root path for the platform
\* is absent or empty, or not on disk, or no core was found for it.
Unresolved ==
    \/ ~Truthy(RootPathFor(data, platform))
    \/ ~frame.exists
    \/ frame.core = "None"

\* C3: when there is a basis record and its core is not resolved, execute()
\* does not end there: it keeps the running core and localize_api true,
\* goes on to commit the running core's paths, and then validates and
\* provisions as in any other case.
C3_FallbackOnUnresolved ==
    (Executing /\ data # NoData /\ Unresolved) =>
        /\ frame.localize_api
        /\ frame.core_path_dict = RunningCorePaths
        /\ pc = "exec_commit" \/ Len(calls) >= 1
        /\ Len(calls) >= 1 => params.core_path = RunningCorePaths
        /\ Provisioned => LocalizeInvoked

\* The basis record's root path is not on disk and the project is provisioned.
C3_Witness ==
    /\ Executing /\ data # NoData
    /\ Truthy(RootPathFor(data, platform)) /\ ~frame.exists
    /\ Provisioned
    /\ params.core_path = RunningCorePaths

\* C4: when the basis record's core is resolved, execute() commits that
\* core's path of each platform, which are not the running core's, and
\* localize_api is true exactly when the basis configuration is localized;
\* and in every run of execute(), once run_project_setup has returned,
\* do_localize is invoked exactly when localize_api is true.
C4_InheritBasisCore ==
    Executing =>
        /\ (data # NoData /\ ~Unresolved) =>
              /\ frame.core_path_dict = [p \in Platforms |-> <<frame.core, p>>]
              /\ frame.core_path_dict # RunningCorePaths
              /\ frame.localize_api <=> frame.localized
              /\ Len(calls) >= 1 =>
                    \A p \in Platforms : params.core_path[p] = <<frame.core, p>>
        /\ Provisioned => (LocalizeInvoked <=> frame.localize_api)
        /\ LocalizeInvoked => Provisioned

\* A shared core is inherited and execute() ends without localizing.
C4_Witness ==
    /\ Executing /\ outcome = "ok"
    /\ data # NoData /\ ~Unresolved /\ ~frame.localized
    /\ Len(calls) = 3 /\ Provisioned
    /\ params.core_path["win32"] = <<"coreOther", "win32">>

\* C5: outside os.makedirs the umask is the one the process started with,
\* whichever way set_project_disk_name ended; during os.makedirs it is 0 and
\* the value to restore is held in old_umask.
C5_UmaskRestored ==
    /\ pc # "spdn_makedirs" => umask = umask0
    /\ pc = "spdn_makedirs" => umask = 0 /\ frame.old_umask = umask0

\* os.makedirs raised for the second storage, after the first one's folder
\* was created by the same call.
C5_Witness ==
    /\ op = "set_project_disk_name" /\ outcome = "os_error"
    /\ frame.created >= 1 /\ frame.idx = frame.created + 1
    /\ umask = umask0 /\ umask0 # 0

\* r is the record of the site's contents that was created last among
\* those flagged primary; NoData when none is flagged primary.
MostRecentPrimary(site, r) ==
    IF NoPrimaryIn(site) THEN r = NoData
    ELSE \E i \in 1..Len(site) :
            /\ site[i].code = "primary"
            /\ \A j \in (i + 1)..Len(site) : site[j].code # "primary"
            /\ r = site[i].rec

\* C6: get_default_configuration_location takes the template's record as
\* its basis when the template has one, and then does not query the site;
\* otherwise it queries the site and takes the primary record created last;
\* when that leaves no basis it returns None for darwin, linux2 and win32.
C6_BasisOrder ==
    (op = "get_default_configuration_location" /\ outcome \in {"ok", "crash"}) =>
        /\ params.sg_info # NoData =>
              data = params.sg_info /\ ~queried
        /\ params.sg_info = NoData =>
              queried /\ MostRecentPrimary(sgConfigs, data)
        /\ data = NoData =>
              /\ outcome = "ok"
              /\ DOMAIN suggested_defaults = Platforms
              /\ \A p \in Platforms : suggested_defaults[p] = NoneStr

\* The site holds two primary records and the one created last is the basis.
C6_Witness ==
    /\ op = "get_default_configuration_location" /\ outcome = "ok"
    /\ queried
    /\ Len(sgConfigs) = 2
    /\ sgConfigs[1] = [code |-> "primary", rec |-> Record4]
    /\ sgConfigs[2] = [code |-> "primary", rec |-> Record1]
    /\ data = Record1

\* sub occurs in s as a run of consecutive characters.
Contains(s, sub) ==
    \E i \in 1..(Len(s) - Len(sub) + 1) : SubSeq(s, i, i + Len(sub) - 1) = sub

\* The first place where sub occurs in s.
FirstAt(s, sub) ==
    CHOOSE i \in 1..(Len(s) - Len(sub) + 1) :
        /\ SubSeq(s, i, i + Len(sub) - 1) = sub
        /\ \A j \in 1..(i - 1) : SubSeq(s, j, j + Len(sub) - 1) # sub

\* s with old replaced by new, occurrence after occurrence (old not empty).
RECURSIVE Substituted(_, _, _)
Substituted(s, old, new) ==
    IF ~Contains(s, old) THEN s
    ELSE LET i == FirstAt(s, old)
         IN  SubSeq(s, 1, i - 1) \o new
             \o Substituted(SubSeq(s, i + Len(old), Len(s)), old, new)

\* A disk name with every slash turned into a backslash.
WinForm(name) == [i \in 1..Len(name) |-> IF name[i] = "/" THEN "\\" ELSE name[i]]

\* What a platform is to be offered, from its own stored path alone.
Suggestion(stored, old, new) ==
    IF stored # NoneStr /\ Contains(stored, old)
    THEN Substituted(stored, old, new)
    ELSE NoneStr

\* The spec's example: old name foo/bar, new name baz/qux, the mac path
\* /mnt/foo/bar/configs and the linux path /mnt/foobar/configs.
ExampleRecord ==
    [id |-> 9, tank_name |-> <<"f", "o", "o", "/", "b", "a", "r">>,
     mac_path |-> <<"/", "m", "n", "t", "/", "f", "o", "o", "/", "b", "a", "r",
                    "/", "c", "o", "n", "f", "i", "g", "s">>,
     linux_path |-> <<"/", "m", "n", "t", "/", "f", "o", "o", "b", "a", "r",
                      "/", "c", "o", "n", "f", "i", "g", "s">>,
     windows_path |-> <<"c", ":", "\\", "f", "o", "o", "\\", "b", "a", "r">>]

ExampleNewName == <<"b", "a", "z", "/", "q", "u", "x">>

ExampleSuggestions ==
    [darwin |-> <<"/", "m", "n", "t", "/", "b", "a", "z", "/", "q", "u", "x",
                  "/", "c", "o", "n", "f", "i", "g", "s">>,
     linux2 |-> NoneStr,
     win32 |-> <<"c", ":", "\\", "b", "a", "z", "\\", "q", "u", "x">>]

\* C7: given a basis record with a disk name, each platform's suggestion is
\* computed from that platform's stored path alone: the stored path with the
\* old disk name replaced by the new one when the path is present and holds
\* the old name as a run of consecutive characters, None otherwise; darwin
\* and linux2 use the names as they are, win32 uses both names with their
\* slashes turned into backslashes. The spec's example comes out as stated.
C7_Suggestions ==
    (op = "get_default_configuration_location" /\ outcome = "ok"
        /\ data # NoData) =>
        LET old == data.tank_name
            new == params.project_disk_name
        IN  /\ suggested_defaults["darwin"] = Suggestion(data.mac_path, old, new)
            /\ suggested_defaults["linux2"] = Suggestion(data.linux_path, old, new)
            /\ suggested_defaults["win32"] =
                  Suggestion(data.windows_path, WinForm(old), WinForm(new))
            /\ SuggestedDefaults(ExampleRecord, ExampleNewName,
                                 ToWin(ExampleNewName)) = ExampleSuggestions

\* One record, three outcomes: no suggestion for darwin (the stored path is
\* empty), a suggestion for linux2 with two replacements, one for win32.
C7_Witness ==
    /\ op = "get_default_configuration_location" /\ outcome = "ok"
    /\ data = Record3
    /\ params.project_disk_name = NewNameCD
    /\ suggested_defaults["darwin"] = NoneStr
    /\ suggested_defaults["linux2"] = <<"/", "c", "/", "d", "/", "c", "/", "d", "b">>
    /\ suggested_defaults["win32"] = <<"z", ":", "\\", "c", "\\", "d">>

\* The operations that need a committed template.
TemplateOps == {"get_config_metadata", "get_default_project_disk_name",
                "preview_project_paths", "set_project_disk_name",
                "get_default_configuration_location", "execute"}

\* C10: an operation that needs a template and is called without one ends
\* in a precondition error, and no operation ends in the crash of a string
\* method applied to None.
C10_NoCrash ==
    /\ outcome # "crash"
    /\ (op \in TemplateOps /\ ~HasTemplate(params)) =>
          outcome = "precondition_error"

\* C9: the factory returns a wizard only over a working connection to the
\* site; when the app store connection fails it still returns one, with the
\* app store handle and the script user both absent and a warning logged;
\* when the connection to the site fails it returns none.
C9_FactoryConnect ==
    /\ wizard = "wizard" => sg = "sg"
    /\ wizard # "wizard" =>
          sg = "None" /\ sg_app_store = "None" /\ sg_app_store_script_user = "None"
    /\ wizard = "wizard" =>
          \/ /\ sg_app_store = "None"
             /\ sg_app_store_script_user = "None"
             /\ warnings = 1
          \/ /\ sg_app_store = "sg_app_store"
             /\ sg_app_store_script_user = "script_user"
             /\ warnings = 0

\* The app store connection failed and a wizard serves calls all the same.
C9_Witness ==
    /\ wizard = "wizard"
    /\ sg = "sg"
    /\ sg_app_store = "None"
    /\ sg_app_store_script_user = "None"
    /\ warnings = 1
    /\ op = "set_config_uri" /\ outcome = "ok"

\* C8: preview_project_paths returns one entry per required storage and no
\* other, each with exactly the keys darwin, win32 and linux2 and each value
\* the preview path of that storage, that platform and the one name asked
\* for, so equal calls in equal states return equal results; and the call
\* changes nothing of the parameters, the disk or the umask.
C8_PreviewShape ==
    (op = "preview_project_paths" /\ outcome = "ok") =>
        /\ DOMAIN return_data = { StorageName(i) : i \in 1..params.storages }
        /\ \A s \in DOMAIN return_data : DOMAIN return_data[s] = Platforms
        /\ \E name \in DiskNames :
              \A s \in DOMAIN return_data : \A plat \in Platforms :
                 return_data[s][plat] = PreviewProjectPath(s, name, plat)

C8_PreviewFrame ==
    (pc = "idle" /\ op' = "preview_project_paths" /\ pc' = "idle") =>
        UNCHANGED <<params, disk, umask, provisionCount, platform>>

C8_Preview == []C8_PreviewShape /\ [][C8_PreviewFrame]_vars

\* A template with two storages is previewed.
C8_Witness ==
    /\ op = "preview_project_paths" /\ outcome = "ok"
    /\ Cardinality(DOMAIN return_data) = NumStorages
    /\ NumStorages >= 2
    /\ return_data[StorageName(2)]["linux2"] =
          PreviewProjectPath(StorageName(2), NewNameCD, "linux2")

\* The folder set_project_disk_name looks at for its i-th storage.
SpdnPath(i) ==
    PreviewProjectPath(GetRequiredStorages(params)[i], frame.name, platform)

\* set_project_disk_name is between its validation and its return.
SpdnRunning == pc \in {"spdn_loop", "spdn_makedirs"}

\* The folders of the storages the loop has left behind are on disk, while
\* the call runs and after it has ended in a failed os.makedirs.
C11_EarlierFoldersStay ==
    (SpdnRunning \/ (op = "set_project_disk_name" /\ outcome = "os_error")) =>
        \A i \in 1..(frame.idx - 1) : SpdnPath(i) \in disk

C11_Step ==
    /\ SpdnRunning =>
          \* the name was validated before the loop, and nothing is taken back
          /\ ValidateName(params, frame.name) = "ok"
          /\ disk \subseteq disk'
          /\ params' # params =>
                /\ pc = "spdn_loop" /\ pc' = "idle" /\ outcome' = "ok"
                /\ frame.idx = Len(GetRequiredStorages(params)) + 1
                /\ \A i \in 1..Len(GetRequiredStorages(params)) : SpdnPath(i) \in disk
                /\ params' = [params EXCEPT !.project_disk_name = frame.name]
                /\ disk' = disk
          /\ (pc' = "idle" /\ outcome' # "ok") =>
                /\ outcome' = "os_error"
                /\ params' = params
                /\ disk' = disk
    /\ (pc = "idle" /\ op' = "set_project_disk_name"
          /\ outcome' \in {"validation_error", "precondition_error"}) =>
          /\ pc' = "idle"
          /\ params' = params
          /\ disk' = disk

\* C11: with create_folders, set_project_disk_name registers the name only
\* as its last step, after the name was validated and every required storage
\* was processed; a failed validation creates no folder and registers
\* nothing; a failed folder creation registers nothing and leaves the folders
\* made for the earlier storages on disk.
C11_CommitLast == []C11_EarlierFoldersStay /\ [][C11_Step]_vars

\* A folder was made for the first storage, the second os.makedirs failed:
\* the first folder is on disk and the name is not registered.
C11_Witness ==
    /\ op = "set_project_disk_name" /\ outcome = "os_error"
    /\ frame.idx = 2 /\ frame.created = 1
    /\ SpdnPath(1) \in disk
    /\ params.project_disk_name = NoneStr

\* Every project folder on disk is a path of the current operating system.
C12_OnlyCurrentPlatform == \A path \in disk : path[2] = platform

C12_Step ==
    \* a folder appears only where os.makedirs runs for the current storage,
    \* whose path for sys.platform did not exist
    /\ disk' # disk =>
          /\ pc = "spdn_makedirs"
          /\ frame.idx \in 1..Len(GetRequiredStorages(params))
          /\ SpdnPath(frame.idx) \notin disk
          /\ disk' = disk \cup {SpdnPath(frame.idx)}
    \* a path that exists is passed over
    /\ (/\ pc = "spdn_loop"
        /\ frame.idx \in 1..Len(GetRequiredStorages(params))
        /\ SpdnPath(frame.idx) \in disk) =>
          /\ disk' = disk
          /\ umask' = umask
          /\ pc' # "spdn_makedirs"
    \* without create_folders the call is over in one step
    /\ (pc = "idle" /\ pc' = "idle" /\ op' = "set_project_disk_name") =>
          /\ disk' = disk
          /\ umask' = umask
    /\ umask' # umask => SpdnRunning

\* C12: set_project_disk_name makes a folder only at the current operating
\* system's path of a required storage and only when that path does not
\* exist; a path that exists is left as it is, no path of another platform
\* is made, and without create_folders no folder is made and the umask is
\* not touched.
C12_FoldersCreated == []C12_OnlyCurrentPlatform /\ [][C12_Step]_vars

\* The first storage's folder was there already and was passed over; the
\* loop is at the second storage.
C12_Witness ==
    /\ pc = "spdn_loop"
    /\ frame.idx = 2 /\ frame.created = 0
    /\ SpdnPath(1) \in disk

\* The basis record both lookups are meant to choose from the template and
\* the site: the template's record, else the primary record created last,
\* else none.
IsBasisOf(r, ps, site) ==
    IF ps.sg_info # NoData THEN r = ps.sg_info ELSE MostRecentPrimary(site, r)

\* The operations that got as far as choosing a basis.
BasisChosen ==
    \/ op = "get_default_configuration_location" /\ outcome \in {"ok", "crash"}
    \/ Executing

\* C13: in every state of the wizard and for every content of the site,
\* execute() and get_default_configuration_location() choose the same basis
\* record: the template's record if it has one, else the primary record
\* created last, else none.
C13_SameBasis ==
    /\ \A site \in SiteContents :
          /\ LocationBasis(params, site).data = CoreBasis(params, site).data
          /\ IsBasisOf(CoreBasis(params, site).data, params, site)
    /\ BasisChosen =>
          /\ IsBasisOf(data, params, sgConfigs)
          /\ data = LocationBasis(params, sgConfigs).data
          /\ data = CoreBasis(params, sgConfigs).data

\* execute() took the later of two primary records of the site, in a state
\* where get_default_configuration_location() can run as well.
C13_Witness ==
    /\ Executing /\ queried
    /\ params.project_disk_name # NoneStr
    /\ Len(sgConfigs) = 2
    /\ sgConfigs[1] = [code |-> "primary", rec |-> Record1]
    /\ sgConfigs[2] = [code |-> "primary", rec |-> Record4]
    /\ data = Record4

====
